---- MODULE Spec2Model ----
(***************************************************************************)
(* Model of QuadTree<T, Bound> (src/QuadTree.hpp) with an integer-valued   *)
(* Bound.  A node is a record holding the fields of the class; a child     *)
(* pointer is <<>> (nullptr) or <<node>> (an owned node).  Objects of type *)
(* T are identified by name; the tree stores the names (pointers) only.    *)
(***************************************************************************)
EXTENDS Integers, Sequences, FiniteSets, TLC

\* ---------------------------------------------------------------- bounds
MaxInserts == 3        \* insert calls in one run
MaxObjectsBound == 1   \* max_objects is drawn from 0..MaxObjectsBound
MaxLevelBound == 2     \* max_level is drawn from 0..MaxLevelBound
MaxChain == 2          \* retrieve calls chained on one accumulator
SplitCoord == 3        \* split() is applied to all bounds with corners in -SplitCoord..SplitCoord

\* ------------------------------------------------- objects of type T
\* the caller's objects: a lies inside one quadrant of the first root, b is a
\* segment across its vertical midline, c lies outside both roots, d is the
\* centre point of the first root
Objs == {"a", "b", "c", "d"}

\* the objects of the end-to-end scenario: A and B are inserted, QA is the
\* query at (10,10) of size (5,5), QAll the query that covers (0,0)-(100,100)
ScenarioObjs == {"A", "B"}
ScenarioQueries == {"QA", "QAll", "A", "B"}

AllObjs == Objs \cup ScenarioObjs \cup ScenarioQueries

Pt(px, py) == [x |-> px, y |-> py]

\* getPosition() of the objects the caller owns
getPosition(o) ==
    CASE o = "a" -> Pt(0, 0)
      [] o = "b" -> Pt(1, 0)
      [] o = "c" -> Pt(6, 6)
      [] o = "d" -> Pt(2, 2)
      [] o = "A" -> Pt(10, 10)
      [] o = "B" -> Pt(60, 60)
      [] o = "QA" -> Pt(10, 10)
      [] o = "QAll" -> Pt(0, 0)

\* getSize() of the objects the caller owns
getSize(o) ==
    CASE o = "a" -> Pt(1, 1)
      [] o = "b" -> Pt(2, 0)
      [] o = "c" -> Pt(1, 1)
      [] o = "d" -> Pt(0, 0)
      [] o = "A" -> Pt(5, 5)
      [] o = "B" -> Pt(5, 5)
      [] o = "QA" -> Pt(5, 5)
      [] o = "QAll" -> Pt(100, 100)

\* the (top_left, bottom_right) pairs the caller constructs a root with;
\* top_left is the top left corner: right >= left and bottom >= top
RootBounds == { <<Pt(0, 0), Pt(4, 4)>>, <<Pt(-3, -1), Pt(2, 4)>> }

\* ------------------------------------------------------------ the class
nullptr == <<>>
IsNull(p) == p = nullptr
Deref(p) == p[1]

\* mutant: the half is rounded away from zero
HalfRoundedUp(v) == IF v >= 0 THEN (v + 1) \div 2 ELSE -((1 - v) \div 2)

\* C++ integer division by two (truncates toward zero)
Half(v) == IF v >= 0 THEN v \div 2 ELSE -((-v) \div 2)

\* QuadTree::QuadTree
QuadTree(pLevel, tl, br, maxObjects, maxLevel) ==
    [ children_nodes |-> <<nullptr, nullptr, nullptr, nullptr>>,
      node_objects   |-> <<>>,
      top_left       |-> tl,
      bottom_right   |-> br,
      max_objects    |-> maxObjects,
      level          |-> pLevel,
      max_level      |-> maxLevel ]

\* QuadTree::is_inside
is_inside(n, o) ==
    /\ getPosition(o).x + getSize(o).x >= n.top_left.x
    /\ getPosition(o).x <= n.bottom_right.x
    /\ getPosition(o).y + getSize(o).y >= n.top_left.y
    /\ getPosition(o).y <= n.bottom_right.y

\* mutant: the children are constructed with the level of the parent
splitSameLevel(n) ==
    LET hf_width  == Half(n.bottom_right.x - n.top_left.x)
        hf_height == Half(n.bottom_right.y - n.top_left.y)
        tl == n.top_left
        br == n.bottom_right
    IN [n EXCEPT !.children_nodes =
          << <<QuadTree(n.level, Pt(tl.x + hf_width, tl.y),
                        Pt(br.x, tl.y + hf_height), n.max_objects, n.max_level)>>,
             <<QuadTree(n.level, Pt(tl.x, tl.y),
                        Pt(tl.x + hf_width, tl.y + hf_height), n.max_objects, n.max_level)>>,
             <<QuadTree(n.level, Pt(tl.x, tl.y + hf_height),
                        Pt(tl.x + hf_width, br.y), n.max_objects, n.max_level)>>,
             <<QuadTree(n.level, Pt(tl.x + hf_width, tl.y + hf_height),
                        Pt(br.x, br.y), n.max_objects, n.max_level)>> >>]

\* mutant: child 2 ends at the horizontal midline instead of the bottom edge
splitShortChild2(n) ==
    LET hf_width  == Half(n.bottom_right.x - n.top_left.x)
        hf_height == Half(n.bottom_right.y - n.top_left.y)
        tl == n.top_left
        br == n.bottom_right
    IN [n EXCEPT !.children_nodes =
          << <<QuadTree(n.level + 1, Pt(tl.x + hf_width, tl.y),
                        Pt(br.x, tl.y + hf_height), n.max_objects, n.max_level)>>,
             <<QuadTree(n.level + 1, Pt(tl.x, tl.y),
                        Pt(tl.x + hf_width, tl.y + hf_height), n.max_objects, n.max_level)>>,
             <<QuadTree(n.level + 1, Pt(tl.x, tl.y + hf_height),
                        Pt(tl.x + hf_width, tl.y + hf_height), n.max_objects, n.max_level)>>,
             <<QuadTree(n.level + 1, Pt(tl.x + hf_width, tl.y + hf_height),
                        Pt(br.x, br.y), n.max_objects, n.max_level)>> >>]

\* QuadTree::split: children_nodes[k] of the code is children_nodes[k+1] here
split(n) ==
    LET hf_width  == Half(n.bottom_right.x - n.top_left.x)
        hf_height == Half(n.bottom_right.y - n.top_left.y)
        tl == n.top_left
        br == n.bottom_right
    IN [n EXCEPT !.children_nodes =
          << <<QuadTree(n.level + 1, Pt(tl.x + hf_width, tl.y),
                        Pt(br.x, tl.y + hf_height), n.max_objects, n.max_level)>>,
             <<QuadTree(n.level + 1, Pt(tl.x, tl.y),
                        Pt(tl.x + hf_width, tl.y + hf_height), n.max_objects, n.max_level)>>,
             <<QuadTree(n.level + 1, Pt(tl.x, tl.y + hf_height),
                        Pt(tl.x + hf_width, br.y), n.max_objects, n.max_level)>>,
             <<QuadTree(n.level + 1, Pt(tl.x + hf_width, tl.y + hf_height),
                        Pt(br.x, br.y), n.max_objects, n.max_level)>> >>]

\* mutant: the list is emptied and the children are kept
clearListOnly(n) == [n EXCEPT !.node_objects = <<>>]

\* QuadTree::clear: the list is emptied, every non-null child is cleared and
\* its slot reset (the cleared child is destroyed with the unique_ptr)
clear(n) ==
    [n EXCEPT !.node_objects = <<>>,
              !.children_nodes = [i \in 1..4 |-> nullptr]]

\* mutant: tmpObj is pushed on the first child it is inside of only
PushToChildrenFirstOnly(n, tmpObj) ==
    [n EXCEPT !.children_nodes =
        [j \in 1..4 |->
            IF /\ is_inside(Deref(n.children_nodes[j]), tmpObj)
               /\ \A k \in 1..(j - 1) : ~is_inside(Deref(n.children_nodes[k]), tmpObj)
            THEN << [Deref(n.children_nodes[j]) EXCEPT
                        !.node_objects = Append(@, tmpObj)] >>
            ELSE n.children_nodes[j]]]

\* one pass of the inner for loop of insert (lines 137-139): tmpObj is pushed
\* on the list of every child it is inside of
PushToChildren(n, tmpObj) ==
    [n EXCEPT !.children_nodes =
        [j \in 1..4 |->
            IF is_inside(Deref(n.children_nodes[j]), tmpObj)
            THEN << [Deref(n.children_nodes[j]) EXCEPT
                        !.node_objects = Append(@, tmpObj)] >>
            ELSE n.children_nodes[j]]]

RECURSIVE Redistribute(_)

\* mutant: the loop stops while one object is still on the list
RedistributeLeavesOne(n) ==
    IF Len(n.node_objects) <= 1 THEN n
    ELSE LET tmpObj == n.node_objects[Len(n.node_objects)]
             popped == [n EXCEPT !.node_objects = SubSeq(@, 1, Len(@) - 1)]
         IN Redistribute(PushToChildren(popped, tmpObj))

\* the while loop of insert (lines 133-140): pops from the back
Redistribute(n) ==
    IF Len(n.node_objects) = 0 THEN n
    ELSE LET tmpObj == n.node_objects[Len(n.node_objects)]
             popped == [n EXCEPT !.node_objects = SubSeq(@, 1, Len(@) - 1)]
         IN Redistribute(PushToChildren(popped, tmpObj))

\* mutant: the level is not compared with max_level
ShouldSplitAnyLevel(n) == Len(n.node_objects) > n.max_objects

\* mutant: the list is compared with >= max_objects
ShouldSplitAtThreshold(n) == Len(n.node_objects) >= n.max_objects /\ n.level < n.max_level

\* the split condition of insert (line 128)
ShouldSplit(n) == Len(n.node_objects) > n.max_objects /\ n.level < n.max_level

RECURSIVE insert(_, _)

\* mutant: an internal node hands the object to the first child it is inside
\* of and returns
insertFirstChildOnly(n, o) ==
    IF ~IsNull(n.children_nodes[1])
    THEN [n EXCEPT !.children_nodes =
            [i \in 1..4 |->
                IF /\ is_inside(Deref(n.children_nodes[i]), o)
                   /\ \A k \in 1..(i - 1) : ~is_inside(Deref(n.children_nodes[k]), o)
                THEN <<insert(Deref(n.children_nodes[i]), o)>>
                ELSE n.children_nodes[i]]]
    ELSE LET pushed == [n EXCEPT !.node_objects = Append(@, o)]
         IN IF ShouldSplit(pushed)
            THEN Redistribute(IF IsNull(pushed.children_nodes[1])
                              THEN split(pushed) ELSE pushed)
            ELSE pushed

\* QuadTree::insert
insert(n, o) ==
    IF ~IsNull(n.children_nodes[1])
    THEN [n EXCEPT !.children_nodes =
            [i \in 1..4 |->
                IF is_inside(Deref(n.children_nodes[i]), o)
                THEN <<insert(Deref(n.children_nodes[i]), o)>>
                ELSE n.children_nodes[i]]]
    ELSE LET pushed == [n EXCEPT !.node_objects = Append(@, o)]
         IN IF ShouldSplit(pushed)
            THEN Redistribute(IF IsNull(pushed.children_nodes[1])
                              THEN split(pushed) ELSE pushed)
            ELSE pushed

\* mutant: the accumulator is assigned, not extended
PushAllAssign(vec, objects) == objects

\* how many levels below n the recursion of insert(n, o) descends (lines
\* 116-121: one level for every child the object is inside of)
RECURSIVE insertDepth(_, _)
insertDepth(n, o) ==
    IF IsNull(n.children_nodes[1]) THEN 0
    ELSE LET below == { 1 + insertDepth(Deref(n.children_nodes[i]), o) :
                          i \in {j \in 1..4 : is_inside(Deref(n.children_nodes[j]), o)} }
         IN IF below = {} THEN 0 ELSE CHOOSE d \in below : \A e \in below : e <= d

\* the range-for of retrieve (lines 149-150): every o is pushed on obj_vec
PushAll(vec, objects) == vec \o objects

\* QuadTree::retrieve, the children visited in the order 0,1,2,3
RECURSIVE retrieve(_, _, _)
RECURSIVE RetrieveFrom(_, _, _, _)

\* mutant: the loop ends before the last child
RetrieveFromSkipsLast(n, vec, q, i) ==
    IF i > 3 THEN vec
    ELSE RetrieveFrom(n,
             IF is_inside(Deref(n.children_nodes[i]), q)
             THEN retrieve(Deref(n.children_nodes[i]), vec, q) ELSE vec,
             q, i + 1)

\* mutant: every child is visited, whether or not the query is inside of it
RetrieveFromUnpruned(n, vec, q, i) ==
    IF i > 4 THEN vec
    ELSE RetrieveFrom(n, retrieve(Deref(n.children_nodes[i]), vec, q), q, i + 1)

\* the for loop of retrieve (lines 153-155), from child i on
RetrieveFrom(n, vec, q, i) ==
    IF i > 4 THEN vec
    ELSE RetrieveFrom(n,
             IF is_inside(Deref(n.children_nodes[i]), q)
             THEN retrieve(Deref(n.children_nodes[i]), vec, q) ELSE vec,
             q, i + 1)
retrieve(n, vec, q) ==
    IF IsNull(n.children_nodes[1])
    THEN PushAll(vec, n.node_objects)
    ELSE RetrieveFrom(n, vec, q, 1)

\* QuadTree::getIndex: the two midpoint lines of the node
v_midPnt(n) == n.top_left.x + Half(n.bottom_right.x - n.top_left.x)
h_midPnt(n) == n.top_left.y + Half(n.bottom_right.y - n.top_left.y)

\* a getIndex whose bottom test admits an object that starts on the midline
getIndexBottomInclusive(n, object) ==
    LET topQuadrant ==
            /\ getPosition(object).y < h_midPnt(n)
            /\ getPosition(object).y + getSize(object).y < h_midPnt(n)
        bottomQuadrant == getPosition(object).y >= h_midPnt(n)
    IN  IF /\ getPosition(object).x < v_midPnt(n)
           /\ getPosition(object).x + getSize(object).x < v_midPnt(n)
        THEN IF topQuadrant THEN 1 ELSE IF bottomQuadrant THEN 2 ELSE -1
        ELSE IF getPosition(object).x > v_midPnt(n)
             THEN IF topQuadrant THEN 0 ELSE IF bottomQuadrant THEN 3 ELSE -1
             ELSE -1

\* QuadTree::getIndex
getIndex(n, object) ==
    LET topQuadrant ==
            /\ getPosition(object).y < h_midPnt(n)
            /\ getPosition(object).y + getSize(object).y < h_midPnt(n)
        bottomQuadrant == getPosition(object).y > h_midPnt(n)
    IN  IF /\ getPosition(object).x < v_midPnt(n)
           /\ getPosition(object).x + getSize(object).x < v_midPnt(n)
        THEN IF topQuadrant THEN 1 ELSE IF bottomQuadrant THEN 2 ELSE -1
        ELSE IF getPosition(object).x > v_midPnt(n)
             THEN IF topQuadrant THEN 0 ELSE IF bottomQuadrant THEN 3 ELSE -1
             ELSE -1

\* ------------------------------------------------------------- the state
VARIABLES
    root,       \* the root node the caller constructed (owns the whole tree)
    obj_vec,    \* the caller's accumulator passed to retrieve
    ctor,       \* the root as the constructor returned it
    inserted,   \* how often each object was inserted since construction / the last clear
    nIns,       \* insert calls made so far
    nChain,     \* retrieve calls made on the current accumulator
    last        \* the last call and what the state was before it

vars == <<root, obj_vec, ctor, inserted, nIns, nChain, last>>

Init ==
    /\ \E b \in RootBounds, mo \in 0..MaxObjectsBound, ml \in 0..MaxLevelBound :
          /\ root = QuadTree(0, b[1], b[2], mo, ml)
          /\ ctor = QuadTree(0, b[1], b[2], mo, ml)
    /\ obj_vec = <<>>
    /\ inserted = [o \in AllObjs |-> 0]
    /\ nIns = 0
    /\ nChain = 0
    /\ last = [op |-> "ctor", arg |-> "-", wasLeaf |-> TRUE, vecBefore |-> <<>>]

\* the caller inserts object o at the root (the runs explored build the tree
\* first and query it afterwards: nChain = 0)
Insert(o) ==
    /\ nIns < MaxInserts
    /\ nChain = 0
    /\ root' = insert(root, o)
    /\ inserted' = [inserted EXCEPT ![o] = @ + 1]
    /\ nIns' = nIns + 1
    /\ last' = [op |-> "insert", arg |-> o,
                wasLeaf |-> IsNull(root.children_nodes[1]), vecBefore |-> <<>>]
    /\ UNCHANGED <<ctor, obj_vec, nChain>>

\* the caller clears the tree at the root
Clear ==
    /\ nChain = 0
    /\ root' = clear(root)
    /\ inserted' = [o \in AllObjs |-> 0]
    /\ last' = [op |-> "clear", arg |-> "-",
                wasLeaf |-> IsNull(root.children_nodes[1]), vecBefore |-> <<>>]
    /\ UNCHANGED <<ctor, nIns, obj_vec, nChain>>

\* the caller queries the root with object q, extending its accumulator
\* a retrieve that hands the root's own objects over instead of copying them
RetrieveDraining(q) ==
    /\ nChain < MaxChain
    /\ obj_vec' = retrieve(root, obj_vec, q)
    /\ nChain' = nChain + 1
    /\ last' = [op |-> "retrieve", arg |-> q,
                wasLeaf |-> IsNull(root.children_nodes[1]), vecBefore |-> obj_vec]
    /\ root' = [root EXCEPT !.node_objects = <<>>]
    /\ UNCHANGED <<ctor, inserted, nIns>>

Retrieve(q) ==
    /\ nChain < MaxChain
    /\ obj_vec' = retrieve(root, obj_vec, q)
    /\ nChain' = nChain + 1
    /\ last' = [op |-> "retrieve", arg |-> q,
                wasLeaf |-> IsNull(root.children_nodes[1]), vecBefore |-> obj_vec]
    /\ UNCHANGED <<root, ctor, inserted, nIns>>

DoInsert == \E o \in Objs : Insert(o)
DoRetrieve == \E q \in Objs : Retrieve(q)

Next == DoInsert \/ Clear \/ DoRetrieve

Spec == Init /\ [][Next]_vars

\* the operations that build the tree, without the queries
NextBuild == DoInsert \/ Clear

SpecBuild == Init /\ [][NextBuild]_vars

\* ------------------------------------------------ roots of degenerate bounds
\* a root of zero width, a root whose corners are swapped in x (negative
\* width) and a root of extent 1, whose children 1, 2 and 0 have a zero extent
DegenerateRootBounds ==
    { <<Pt(2, 0), Pt(2, 4)>>, <<Pt(4, 0), Pt(0, 4)>>, <<Pt(0, 0), Pt(1, 1)>> }

\* the constructor accepts every pair of corners (lines 86-95)
InitDegenerate ==
    /\ \E b \in DegenerateRootBounds, mo \in 0..MaxObjectsBound, ml \in 0..MaxLevelBound :
          /\ root = QuadTree(0, b[1], b[2], mo, ml)
          /\ ctor = QuadTree(0, b[1], b[2], mo, ml)
    /\ obj_vec = <<>>
    /\ inserted = [o \in AllObjs |-> 0]
    /\ nIns = 0
    /\ nChain = 0
    /\ last = [op |-> "ctor", arg |-> "-", wasLeaf |-> TRUE, vecBefore |-> <<>>]

SpecDegenerate == InitDegenerate /\ [][Next]_vars

\* ------------------------------------------------ the end-to-end scenario
\* a fresh index with bounds (0,0)-(100,100), max_objects 1 and max_level 4
InitScenario ==
    /\ root = QuadTree(0, Pt(0, 0), Pt(100, 100), 1, 4)
    /\ ctor = QuadTree(0, Pt(0, 0), Pt(100, 100), 1, 4)
    /\ obj_vec = <<>>
    /\ inserted = [o \in AllObjs |-> 0]
    /\ nIns = 0
    /\ nChain = 0
    /\ last = [op |-> "ctor", arg |-> "-", wasLeaf |-> TRUE, vecBefore |-> <<>>]

ScenarioInsert == \E o \in ScenarioObjs : Insert(o)
ScenarioRetrieve == \E q \in ScenarioQueries : Retrieve(q)

NextScenario == ScenarioInsert \/ Clear \/ ScenarioRetrieve

SpecScenario == InitScenario /\ [][NextScenario]_vars

\* ---------------------------------------- split() as a function of the bounds
\* a node constructed with any two corners of the grid, inverted ones included
InitSplit ==
    /\ \E l \in -SplitCoord..SplitCoord, t \in -SplitCoord..SplitCoord,
          r \in -SplitCoord..SplitCoord, b \in -SplitCoord..SplitCoord :
          /\ root = QuadTree(0, Pt(l, t), Pt(r, b), 0, 1)
          /\ ctor = QuadTree(0, Pt(l, t), Pt(r, b), 0, 1)
    /\ obj_vec = <<>>
    /\ inserted = [o \in AllObjs |-> 0]
    /\ nIns = 0
    /\ nChain = 0
    /\ last = [op |-> "ctor", arg |-> "-", wasLeaf |-> TRUE, vecBefore |-> <<>>]

\* split() is called on the node (line 131: only ever on a leaf)
SplitStep ==
    /\ IsNull(root.children_nodes[1])
    /\ root' = split(root)
    /\ last' = [op |-> "split", arg |-> "-", wasLeaf |-> TRUE, vecBefore |-> <<>>]
    /\ UNCHANGED <<obj_vec, ctor, inserted, nIns, nChain>>

NextSplit == SplitStep

SpecSplit == InitSplit /\ [][NextSplit]_vars

\* getIndex is called on a node for an object; the node is left as it was
IndexStep(o) ==
    /\ last' = [op |-> "getIndex", arg |-> o, wasLeaf |-> TRUE,
                vecBefore |-> <<>>, index |-> getIndex(root, o)]
    /\ UNCHANGED <<root, obj_vec, ctor, inserted, nIns, nChain>>

NextIndex == \E o \in Objs : IndexStep(o)

SpecIndex == InitSplit /\ [][NextIndex]_vars

\* ------------------------------------------------------------ vocabulary
IsLeaf(n) == IsNull(n.children_nodes[1])

\* the nodes of the tree under n in preorder, n first
RECURSIVE NodeSeq(_)
RECURSIVE NodeSeqFrom(_, _)
NodeSeqFrom(n, i) ==
    IF i > 4 THEN <<>>
    ELSE (IF IsNull(n.children_nodes[i]) THEN <<>>
          ELSE NodeSeq(Deref(n.children_nodes[i]))) \o NodeSeqFrom(n, i + 1)
NodeSeq(n) == <<n>> \o NodeSeqFrom(n, 1)

\* seq[i] for every i satisfies P / for some i satisfies P
All(seq, P(_)) == \A i \in 1..Len(seq) : P(seq[i])
Some(seq, P(_)) == \E i \in 1..Len(seq) : P(seq[i])

\* the leaves under n in the order of the children 0,1,2,3
RECURSIVE LeafSeq(_)
LeafSeq(n) ==
    IF IsLeaf(n) THEN <<n>>
    ELSE LeafSeq(Deref(n.children_nodes[1])) \o LeafSeq(Deref(n.children_nodes[2]))
         \o LeafSeq(Deref(n.children_nodes[3])) \o LeafSeq(Deref(n.children_nodes[4]))

Range(seq) == {seq[i] : i \in 1..Len(seq)}
Count(o, seq) == Cardinality({i \in 1..Len(seq) : seq[i] = o})
IsPrefix(s, t) == Len(s) <= Len(t) /\ SubSeq(t, 1, Len(s)) = s

\* the inclusive AABB test on the rectangles of two objects
Overlap(o, q) ==
    /\ getPosition(o).x + getSize(o).x >= getPosition(q).x
    /\ getPosition(o).x <= getPosition(q).x + getSize(q).x
    /\ getPosition(o).y + getSize(o).y >= getPosition(q).y
    /\ getPosition(o).y <= getPosition(q).y + getSize(q).y

\* what the last call, a retrieve, appended to the accumulator it was given
Appended == SubSeq(obj_vec, Len(last.vecBefore) + 1, Len(obj_vec))

\* the lists of the leaves in ls[i..] whose bounds overlap q, concatenated
RECURSIVE ListsOfOverlapping(_, _, _)
ListsOfOverlapping(ls, q, i) ==
    IF i > Len(ls) THEN <<>>
    ELSE (IF is_inside(ls[i], q) THEN ls[i].node_objects ELSE <<>>)
         \o ListsOfOverlapping(ls, q, i + 1)

\* ---------------------------------------------------------------- claims

\* C1: a retrieve appends every object that was inserted since the last
\* clear and whose rectangle overlaps the query's rectangle (as stated: for
\* all rectangles, also those partly or wholly outside the root bounds).
C1_InsertedIsRetrievable ==
    last.op = "retrieve" =>
        \A o \in Objs :
            (inserted[o] > 0 /\ Overlap(o, last.arg)) => o \in Range(Appended)

\* C2 (as stated): retrieve on the root appends exactly the lists of the leaves
\* whose bounds overlap the query, in child order, also when the root is the
\* only leaf.
C2_ExactlyOverlappingLeaves ==
    last.op = "retrieve" =>
        Appended = ListsOfOverlapping(LeafSeq(root), last.arg, 1)

\* C2 (amended): an internal root appends exactly the lists of the leaves
\* whose bounds overlap the query, in child order; a root that is a leaf
\* appends its whole list whether or not its bounds overlap the query.
C2_OverlappingLeavesBelowRoot ==
    last.op = "retrieve" =>
        Appended = IF IsLeaf(root) THEN root.node_objects
                   ELSE ListsOfOverlapping(LeafSeq(root), last.arg, 1)

\* a retrieve on a split root has pruned a leaf that holds objects and has
\* appended the list of another
C2_Witness ==
    /\ last.op = "retrieve"
    /\ ~IsLeaf(root)
    /\ Appended # <<>>
    /\ Some(LeafSeq(root), LAMBDA m : ~is_inside(m, last.arg) /\ m.node_objects # <<>>)

\* C3: every leaf below the maximum depth holds at most max_objects objects.
C3_LeafWithinThreshold ==
    All(NodeSeq(root), LAMBDA m :
        (IsLeaf(m) /\ m.level < m.max_level) => Len(m.node_objects) <= m.max_objects)

\* C4: no node is deeper than max_level, a child is one level below its
\* parent, and a node at max_level has no children.
C4_DepthBound ==
    All(NodeSeq(root), LAMBDA m :
        /\ m.level <= m.max_level
        /\ m.level = m.max_level => \A j \in 1..4 : IsNull(m.children_nodes[j])
        /\ \A j \in 1..4 : ~IsNull(m.children_nodes[j]) =>
               Deref(m.children_nodes[j]).level = m.level + 1)

\* a leaf at the maximum depth, below the root, whose list has grown past
\* the threshold
C4_Witness ==
    /\ last.op = "insert"
    /\ Some(LeafSeq(root), LAMBDA m :
          /\ m.level = m.max_level
          /\ m.level > 0
          /\ Len(m.node_objects) > m.max_objects + 1)

\* C5: after every completed call a node has 0 or 4 children, and a node with
\* children has an empty list.
C5_LeafOrInternal ==
    All(NodeSeq(root), LAMBDA m :
        /\ Cardinality({j \in 1..4 : ~IsNull(m.children_nodes[j])}) \in {0, 4}
        /\ (\E j \in 1..4 : ~IsNull(m.children_nodes[j])) => m.node_objects = <<>>)

\* an insert has just split a leaf that held objects
C5_Witness ==
    /\ last.op = "insert"
    /\ last.wasLeaf
    /\ ~IsLeaf(root)
    /\ Some(LeafSeq(root), LAMBDA m : Len(m.node_objects) >= 2)

\* C6: clear() on the root leaves the root exactly as the constructor made
\* it: an empty leaf with the bounds, level, max_level and max_objects given.
C6_ClearRestoresCtor ==
    last.op = "clear" =>
        /\ root = ctor
        /\ root.node_objects = <<>>
        /\ \A j \in 1..4 : IsNull(root.children_nodes[j])

\* a clear of a root that had been split
C6_Witness == last.op = "clear" /\ ~last.wasLeaf /\ nIns >= 2

\* C7: across every call the accumulator keeps its former elements, in order,
\* as a prefix; retrieve only appends behind them.
C7_RetrieveOnlyAppends == [][IsPrefix(obj_vec, obj_vec')]_vars

\* a retrieve that appended to an accumulator filled by an earlier retrieve
C7_Witness ==
    /\ last.op = "retrieve"
    /\ nChain >= 2
    /\ last.vecBefore # <<>>
    /\ Len(obj_vec) > Len(last.vecBefore)

\* C9: an object that overlaps the query and sits in a leaf whose bounds
\* overlap the query is appended by retrieve on the root.
C9_CoResidentIsRetrieved ==
    last.op = "retrieve" =>
        \A o \in Objs :
            (/\ Overlap(o, last.arg)
             /\ Some(LeafSeq(root), LAMBDA m :
                    o \in Range(m.node_objects) /\ is_inside(m, last.arg)))
            => o \in Range(Appended)

\* a retrieve on a split root returned an object that overlaps the query
\* while another leaf that holds objects was pruned
C9_Witness ==
    /\ last.op = "retrieve"
    /\ ~IsLeaf(root)
    /\ \E o \in Range(Appended) : Overlap(o, last.arg) /\ o # last.arg
    /\ Some(LeafSeq(root), LAMBDA m : m.node_objects # <<>> /\ ~is_inside(m, last.arg))

\* the four quadrants of the root bounds, as split() cuts them
RootQuadrants == split(ctor).children_nodes

\* o and q both overlap the quadrants i and j of quads
StraddleBoth(quads, o, q, i, j) ==
    /\ is_inside(Deref(quads[i]), o) /\ is_inside(Deref(quads[j]), o)
    /\ is_inside(Deref(quads[i]), q) /\ is_inside(Deref(quads[j]), q)

\* C10 (as stated): on any tree, an inserted object that straddles two
\* quadrants of the root is appended at least twice by a retrieve whose query
\* overlaps both quadrants.
C10_StraddlerTwice ==
    last.op = "retrieve" =>
        LET quads == RootQuadrants
        IN \A o \in Objs :
              (/\ inserted[o] > 0
               /\ \E i \in 1..4, j \in 1..4 :
                     i # j /\ StraddleBoth(quads, o, last.arg, i, j))
              => Count(o, Appended) >= 2

\* C10 (amended): when the root has split and the query also overlaps the
\* object, the object is appended at least twice.
C10_StraddlerTwiceOnSplitRoot ==
    (last.op = "retrieve" /\ ~IsLeaf(root)) =>
        LET quads == RootQuadrants
        IN \A o \in Objs :
              (/\ inserted[o] > 0
               /\ Overlap(o, last.arg)
               /\ \E i \in 1..4, j \in 1..4 :
                     i # j /\ StraddleBoth(quads, o, last.arg, i, j))
              => Count(o, Appended) >= 2

\* a retrieve on a split root appended twice an object that was inserted once
\* and straddles two quadrants
C10_Witness ==
    /\ last.op = "retrieve"
    /\ ~IsLeaf(root)
    /\ \E o \in Objs, i \in 1..4, j \in 1..4 :
          /\ i # j /\ inserted[o] = 1
          /\ Overlap(o, last.arg)
          /\ StraddleBoth(RootQuadrants, o, last.arg, i, j)
          /\ Count(o, Appended) >= 2

\* the rectangle of node n holds the point (px/2, py/2)
HoldsHalfPoint(n, px, py) ==
    /\ 2 * n.top_left.x <= px /\ px <= 2 * n.bottom_right.x
    /\ 2 * n.top_left.y <= py /\ py <= 2 * n.bottom_right.y

\* right >= left and bottom >= top
NonDegenerate(n) ==
    n.bottom_right.x >= n.top_left.x /\ n.bottom_right.y >= n.top_left.y

\* the half-integer points around the rectangle of n (doubled coordinates)
HalfXs(n) == (2 * n.top_left.x - 2)..(2 * n.bottom_right.x + 2)
HalfYs(n) == (2 * n.top_left.y - 2)..(2 * n.bottom_right.y + 2)

\* C8: after a split of a node with right >= left and bottom >= top, a point
\* lies in some child exactly if it lies in the parent, and two different
\* children share points only on the lines x = mid_x and y = mid_y.
C8_ChildrenPartitionParent ==
    (last.op = "split" /\ NonDegenerate(root)) =>
        LET kid(k) == Deref(root.children_nodes[k])
            mid_x == root.top_left.x + Half(root.bottom_right.x - root.top_left.x)
            mid_y == root.top_left.y + Half(root.bottom_right.y - root.top_left.y)
        IN \A px \in HalfXs(root), py \in HalfYs(root) :
              /\ (\E k \in 1..4 : HoldsHalfPoint(kid(k), px, py))
                    <=> HoldsHalfPoint(root, px, py)
              /\ \A i \in 1..4, j \in 1..4 :
                    (i # j /\ HoldsHalfPoint(kid(i), px, py)
                           /\ HoldsHalfPoint(kid(j), px, py))
                    => (px = 2 * mid_x \/ py = 2 * mid_y)

\* a node of odd width and even height, with a negative corner, has been split
C8_Witness ==
    /\ last.op = "split"
    /\ ~IsNull(root.children_nodes[1])
    /\ root.top_left.x < 0
    /\ (root.bottom_right.x - root.top_left.x) % 2 = 1
    /\ root.bottom_right.y - root.top_left.y = 4

\* A and then B were inserted, each once, since construction or the last clear
OnlyAThenB ==
    /\ inserted["A"] = 1 /\ inserted["B"] = 1
    /\ \A o \in AllObjs \ {"A", "B"} : inserted[o] = 0

\* C11: with bounds (0,0)-(100,100), max_objects 1 and max_level 4, the insert
\* of B after A splits the root; then a retrieve with the query at (10,10) of
\* size (5,5) into an empty accumulator yields exactly <<A>>, and one with the
\* query covering (0,0)-(100,100) yields both A and B.
C11_Scenario ==
    OnlyAThenB =>
        /\ (last.op = "insert" /\ last.arg = "B") => (last.wasLeaf /\ ~IsLeaf(root))
        /\ (last.op = "retrieve" /\ last.vecBefore = <<>> /\ last.arg = "QA")
              => obj_vec = <<"A">>
        /\ (last.op = "retrieve" /\ last.vecBefore = <<>> /\ last.arg = "QAll")
              => (Range(obj_vec) = {"A", "B"} /\ Len(obj_vec) = 2)

\* after A and B the covering query was answered into an empty accumulator
C11_Witness ==
    /\ OnlyAThenB
    /\ nIns = 2
    /\ ~IsLeaf(root)
    /\ last.op = "retrieve" /\ last.arg = "QAll"
    /\ last.vecBefore = <<>>
    /\ obj_vec = <<"A", "B">>

\* C12: in every state the recursion of an insert of any object descends at
\* most max_level levels (so every insert returns), also with max_objects = 0,
\* and with max_level = 0 the root is a leaf whatever was inserted.
C12_InsertDescentBounded ==
    /\ \A o \in Objs : insertDepth(root, o) <= root.max_level
    /\ root.max_level = 0 => IsLeaf(root)

\* with max_objects = 0 an insert has descended max_level = 2 levels to a
\* leaf that two earlier inserts had filled
C12_Witness ==
    /\ last.op = "insert"
    /\ root.max_objects = 0
    /\ root.max_level = 2
    /\ insertDepth(root, last.arg) = 2
    /\ Some(LeafSeq(root), LAMBDA m :
          m.level = 2 /\ Count(last.arg, m.node_objects) >= 3)

\* C13: since the last clear, every inserted object that overlaps the root
\* bounds is in the list of every leaf whose bounds it overlaps exactly as
\* many times as it was inserted.
C13_InEveryOverlappingLeaf ==
    \A o \in Objs :
        (inserted[o] > 0 /\ is_inside(root, o)) =>
            All(LeafSeq(root), LAMBDA m :
                is_inside(m, o) => Count(o, m.node_objects) = inserted[o])

\* an object was inserted into a leaf root, redistributed by a split and then
\* inserted again through the internal root: two leaves hold it twice
C13_Witness ==
    /\ last.op = "insert"
    /\ ~last.wasLeaf
    /\ inserted[last.arg] = 2
    /\ root.max_objects = 1
    /\ Cardinality({i \in 1..Len(LeafSeq(root)) :
                       Count(last.arg, LeafSeq(root)[i].node_objects) = 2}) >= 2

\* C14: every object in the list of a leaf overlaps the bounds of that leaf,
\* the root included when the root is a leaf.
C14_LeafHoldsOnlyOverlapping ==
    All(LeafSeq(root), LAMBDA m :
        \A i \in 1..Len(m.node_objects) : is_inside(m, m.node_objects[i]))

Width(n) == n.bottom_right.x - n.top_left.x
Height(n) == n.bottom_right.y - n.top_left.y

\* h is e / 2 as integer division computes it (rounded toward zero)
IsTruncatedHalf(h, e) ==
    IF e >= 0 THEN 2 * h <= e /\ e <= 2 * h + 1
    ELSE 2 * h >= e /\ e >= 2 * h - 1

\* C15 (as stated): the four children made by a split have the same width and
\* the same height, each half of the parent's, for every parent width and
\* height (taken here for parents with right >= left and bottom >= top).
C15_EqualQuadrants ==
    (last.op = "split" /\ Width(root) >= 0 /\ Height(root) >= 0) =>
        \A k \in 1..4 :
            LET kid == Deref(root.children_nodes[k])
            IN /\ IsTruncatedHalf(Width(kid), Width(root))
               /\ IsTruncatedHalf(Height(kid), Height(root))
               /\ Width(kid) = Width(Deref(root.children_nodes[1]))
               /\ Height(kid) = Height(Deref(root.children_nodes[1]))

\* C15 (amended): the left children (1, 2) have the truncated half width and
\* the right children (0, 3) the rest of the width, the top children (0, 1)
\* the truncated half height and the bottom children (2, 3) the rest; the
\* four are equal quadrants exactly when width and height are both even.
C15_HalvesAndRemainders ==
    last.op = "split" =>
        LET kid(k) == Deref(root.children_nodes[k + 1])
            w == Width(root)
            h == Height(root)
        IN /\ IsTruncatedHalf(Width(kid(1)), w) /\ Width(kid(2)) = Width(kid(1))
           /\ Width(kid(0)) = w - Width(kid(1)) /\ Width(kid(3)) = Width(kid(0))
           /\ IsTruncatedHalf(Height(kid(0)), h) /\ Height(kid(1)) = Height(kid(0))
           /\ Height(kid(2)) = h - Height(kid(0)) /\ Height(kid(3)) = Height(kid(2))
           /\ (w % 2 = 0 /\ h % 2 = 0) <=>
                 (\A k \in 1..3 : /\ Width(kid(k)) = Width(kid(0))
                                  /\ Height(kid(k)) = Height(kid(0)))

\* a node of width 5 and height 4 was split into children of widths 2 and 3
C15_Witness ==
    /\ last.op = "split"
    /\ Width(root) = 5 /\ Height(root) = 4
    /\ Width(Deref(root.children_nodes[2])) = 2
    /\ Width(Deref(root.children_nodes[1])) = 3
    /\ Height(Deref(root.children_nodes[1])) = 2
    /\ Height(Deref(root.children_nodes[3])) = 2

\* zero or negative width or height
Degenerate(n) == Width(n) <= 0 \/ Height(n) <= 0

\* C16: a node with degenerate bounds (the constructor rejects none) is a
\* leaf in every state: no sequence of inserts splits it.
C16_DegenerateStaysLeaf ==
    All(NodeSeq(root), LAMBDA m : Degenerate(m) => IsLeaf(m))

\* C17: retrieve is read-only on the index: a retrieve step leaves the whole
\* tree (nodes, bounds, levels, object lists and their order) as it was, so a
\* retrieve that repeats the query of the retrieve before it appends the same
\* sequence again.
C17_RetrieveReadOnly ==
    [][ (nChain' = nChain + 1) =>
          /\ root' = root
          /\ (last.op = "retrieve" /\ last'.arg = last.arg) => Appended' = Appended
      ]_vars

\* the second of two retrieves on a split tree appended the same non-empty
\* sequence as the first
C17_Witness ==
    /\ nChain = 2
    /\ last.op = "retrieve"
    /\ ~IsLeaf(root)
    /\ Appended # <<>>
    /\ last.vecBefore = Appended
    /\ Appended = retrieve(root, <<>>, last.arg)

\* the sides of the node's midpoint lines an object's rectangle lies on
StrictlyLeft(n, o)  == getPosition(o).x + getSize(o).x < v_midPnt(n)
StrictlyRight(n, o) == v_midPnt(n) < getPosition(o).x
StrictlyAbove(n, o) == getPosition(o).y + getSize(o).y < h_midPnt(n)
StrictlyBelow(n, o) == h_midPnt(n) < getPosition(o).y

\* the rectangle spans or touches the vertical / the horizontal midpoint line
OnVerticalMidline(n, o) ==
    /\ getPosition(o).x <= v_midPnt(n)
    /\ v_midPnt(n) <= getPosition(o).x + getSize(o).x
OnHorizontalMidline(n, o) ==
    /\ getPosition(o).y <= h_midPnt(n)
    /\ h_midPnt(n) <= getPosition(o).y + getSize(o).y

\* C18: getIndex returns -1 or a quadrant number 0..3, and a quadrant number
\* only for an object (of non-negative size) that lies strictly on that
\* quadrant's side of both midpoint lines: 0 top-right, 1 top-left,
\* 2 bottom-left, 3 bottom-right; an object that spans or touches a midpoint
\* line on either axis gets -1.
C18_IndexOnlyStrictlyInQuadrant ==
    last.op = "getIndex" =>
        LET o == last.arg
            q == last.index
        IN  /\ getSize(o).x >= 0 /\ getSize(o).y >= 0
            /\ q \in {-1, 0, 1, 2, 3}
            /\ (q = 0) => (StrictlyRight(root, o) /\ StrictlyAbove(root, o))
            /\ (q = 1) => (StrictlyLeft(root, o) /\ StrictlyAbove(root, o))
            /\ (q = 2) => (StrictlyLeft(root, o) /\ StrictlyBelow(root, o))
            /\ (q = 3) => (StrictlyRight(root, o) /\ StrictlyBelow(root, o))
            /\ (OnVerticalMidline(root, o) \/ OnHorizontalMidline(root, o))
                   => (q = -1)

\* getIndex answered -1 for an object of positive width that spans the
\* vertical midline and lies strictly above the horizontal one
C18_Witness ==
    /\ last.op = "getIndex"
    /\ last.index = -1
    /\ getPosition(last.arg).x < v_midPnt(root)
    /\ v_midPnt(root) < getPosition(last.arg).x + getSize(last.arg).x
    /\ StrictlyAbove(root, last.arg)

====
